---- MODULE Spec2Model ----
(***************************************************************************)
(* Model of the classes of experiment1.ipynb: Location, Individual and     *)
(* Population.  The notebook defines the data classes, the per-individual  *)
(* pressure contribution and the three aggregate counters; it defines no   *)
(* simulation step, no transition rule, no immigration and no observation  *)
(* layer, so none appears here.                                            *)
(*                                                                         *)
(* An optional Python value (int = None) is a set with at most one         *)
(* element: {} is None, {d} is the integer d.                              *)
(***************************************************************************)
EXTENDS Integers, Sequences, FiniteSets, TLC

VARIABLES individuals_list, population_size, individuals_array, result

vars == <<individuals_list, population_size, individuals_array, result>>

(* ---------------------------- bounds ----------------------------------- *)

\* Longest individuals_list explored when the constructor arguments range
\* over every field (specification Spec).
MaxIndividuals == 2

\* Longest individuals_list explored when only the flags vary
\* (specification SpecCounts).
MaxCounted == 3

\* Largest population_size handed to Population.__init__.
MaxPopulationSize == 2

(* ------------------------- program constants --------------------------- *)

\* infection_radius: float = 2
DefaultInfectionRadius == 2

\* scale = self.infection_radius * 3
KernelScaleFactor == 3

None == {}

\* Location(0, 0), the default location of an Individual, and one other point.
Locations == {[x |-> 0, y |-> 0], [x |-> 3, y |-> 4]}

DefaultLocation == [x |-> 0, y |-> 0]

\* Step indices a caller may pass as a date, besides None.
Dates == {None, {1}}

\* infection_radius values a caller may pass: the default and a non-positive one.
Radii == {0, DefaultInfectionRadius}

\* infectious_rate values a caller may pass.
Rates == {0, 1}

(* ------------------------------ Individual ----------------------------- *)

\* Individual.__init__: every argument is stored as given; nothing is
\* validated and no argument is derived from another.  (age, vulnerability,
\* mobility and immunity are stored the same way and read by no method; they
\* are left at their defaults and not carried in the record.)
Individual(location, is_infected, infection_date, has_symptom, symptom_date, is_dead, death_date, infection_radius) ==
    [location         |-> location,
     is_infected      |-> is_infected,
     infection_date   |-> infection_date,
     has_symptom      |-> has_symptom,
     symptom_date     |-> symptom_date,
     is_dead          |-> is_dead,
     death_date       |-> death_date,
     infection_radius |-> infection_radius]

\* Every Individual a call of the constructor can build from the input sets.
IndividualArgs ==
    { Individual(DefaultLocation, i, idate, s, sdate, d, ddate, r) :
        i \in BOOLEAN, idate \in Dates, s \in BOOLEAN, sdate \in Dates,
        d \in BOOLEAN, ddate \in Dates, r \in Radii }

\* The constructor called with flags only: dates and radius keep their defaults.
FlagArgs ==
    { Individual(DefaultLocation, i, None, s, None, d, None, DefaultInfectionRadius) :
        i \in BOOLEAN, s \in BOOLEAN, d \in BOOLEAN }

\* Names bound at module level by the notebook's cells.
ModuleGlobals ==
    {"np", "pd", "typing", "norm",
     "X_BOUNDARY", "Y_BOUNDARY", "POPULATION", "AVERAGE_TEMPRATURE",
     "VIRUS_LIFE_EXPECTANCY", "city_population", "columns",
     "population_distribution", "age_groups", "age_distribution",
     "Location", "Individual", "Population", "x"}

\* Names local to the body of get_infection_pressure.
PressureLocals == {"self", "location", "infectious_rate", "mu"}

\* Sign of norm.pdf(x, scale): positive for a positive scale, nan otherwise.
norm_pdf_sign(scale) == IF scale > 0 THEN {1} ELSE None

\* Individual.get_infection_pressure.  The body calls the bare name
\* cal_distance, which Python resolves among the function's locals and the
\* module's globals (a class body is no enclosing scope of its methods);
\* cal_distance is bound in neither, so the call raises NameError before the
\* kernel is evaluated.  The value is kept as its sign.  self.is_infected is
\* not read.
get_infection_pressure(self, location, infectious_rate) ==
    IF "cal_distance" \in (PressureLocals \cup ModuleGlobals)
    THEN [raised |-> "",
          value  |-> { infectious_rate * p :
                         p \in norm_pdf_sign(self.infection_radius * KernelScaleFactor) }]
    ELSE [raised |-> "NameError", value |-> None]

(* ------------------------------ Population ----------------------------- *)

\* bool added to an int counts as 0 or 1.
BoolToInt(b) == IF b THEN 1 ELSE 0

RECURSIVE SumFlag(_, _)
\* The loop "for individual in self.individuals_list: count += individual.<flag>".
SumFlag(individuals, flag) ==
    IF individuals = <<>> THEN 0
    ELSE BoolToInt(Head(individuals)[flag]) + SumFlag(Tail(individuals), flag)

\* Copy-paste slip: the symptom counter reads is_infected.
get_has_symptom_count_wrong_flag(individuals) == SumFlag(individuals, "is_infected")

get_infected_count(individuals) == SumFlag(individuals, "is_infected")

get_has_symptom_count(individuals) == SumFlag(individuals, "has_symptom")

get_death_count(individuals) == SumFlag(individuals, "is_dead")

NoResult == [op |-> "", self |-> 0, raised |-> "", value |-> None]

Returned(op, v) == [op |-> op, self |-> 0, raised |-> "", value |-> {v}]

\* Population.__init__(population_location, population_size, individuals):
\* the size and the list are stored independently of each other.
Init ==
    /\ population_size \in 0..MaxPopulationSize
    /\ individuals_list = <<>>
    /\ individuals_array = None
    /\ result = NoResult

\* individuals_list is the caller's list object: a newly constructed
\* Individual appended to it is in the population.  No field of Population is
\* touched by the append.
AddIndividual(args, bound) ==
    /\ Len(individuals_list) < bound
    /\ individuals_list' = Append(individuals_list, args)
    /\ result' = [NoResult EXCEPT !.op = "append"]
    /\ UNCHANGED <<population_size, individuals_array>>

\* The flags are plain instance attributes: individual.<flag> = v.
SetFlag(i, flag, v) ==
    /\ i \in DOMAIN individuals_list
    /\ individuals_list' = [individuals_list EXCEPT ![i][flag] = v]
    /\ result' = [NoResult EXCEPT !.op = "setattr"]
    /\ UNCHANGED <<population_size, individuals_array>>

GetInfectedCount ==
    /\ result' = Returned("get_infected_count", get_infected_count(individuals_list))
    /\ UNCHANGED <<individuals_list, population_size, individuals_array>>

GetHasSymptomCount ==
    /\ result' = Returned("get_has_symptom_count", get_has_symptom_count(individuals_list))
    /\ UNCHANGED <<individuals_list, population_size, individuals_array>>

GetDeathCount ==
    /\ result' = Returned("get_death_count", get_death_count(individuals_list))
    /\ UNCHANGED <<individuals_list, population_size, individuals_array>>

GetInfectionPressure(i, location, infectious_rate) ==
    /\ i \in DOMAIN individuals_list
    /\ LET r == get_infection_pressure(individuals_list[i], location, infectious_rate)
       IN  result' = [op |-> "get_infection_pressure", self |-> i,
                      raised |-> r.raised, value |-> r.value]
    /\ UNCHANGED <<individuals_list, population_size, individuals_array>>

Next ==
    \/ \E args \in IndividualArgs : AddIndividual(args, MaxIndividuals)
    \/ GetInfectedCount
    \/ GetHasSymptomCount
    \/ GetDeathCount
    \/ \E i \in 1..MaxIndividuals, l \in Locations, r \in Rates : GetInfectionPressure(i, l, r)

Spec == Init /\ [][Next]_vars

NextCounts ==
    \/ \E args \in FlagArgs : AddIndividual(args, MaxCounted)
    \/ \E i \in 1..MaxCounted, f \in {"is_infected", "has_symptom", "is_dead"}, v \in BOOLEAN : SetFlag(i, f, v)
    \/ GetInfectedCount
    \/ GetHasSymptomCount
    \/ GetDeathCount

SpecCounts == Init /\ [][NextCounts]_vars

(* ------------------------------- claims -------------------------------- *)

\* The flag each counter is documented to count.
CountedFlag(op) ==
    CASE op = "get_infected_count"    -> "is_infected"
      [] op = "get_has_symptom_count" -> "has_symptom"
      [] op = "get_death_count"       -> "is_dead"

CountOps == {"get_infected_count", "get_has_symptom_count", "get_death_count"}

\* Number of individuals of the list whose flag is set.
NumberWith(individuals, flag) ==
    Cardinality({ i \in DOMAIN individuals : individuals[i][flag] })

\* C3: after any sequence of flag assignments and additions to the list, a
\* call of get_infected_count, get_has_symptom_count or get_death_count
\* returns the number of individuals of individuals_list whose is_infected,
\* has_symptom or is_dead flag is set at the time of the call, and the call
\* changes no individual and no field of the population.
C3_CountsRecomputed ==
    [][ result'.op \in CountOps =>
          /\ result'.value = {NumberWith(individuals_list, CountedFlag(result'.op))}
          /\ result'.raised = ""
          /\ UNCHANGED <<individuals_list, population_size, individuals_array>> ]_vars

\* C3 witness: the symptom count was taken of a list of three in which two
\* individuals have symptoms and the infected count differs from it.
C3_Witness ==
    /\ result.op = "get_has_symptom_count"
    /\ result.value = {2}
    /\ Len(individuals_list) = 3
    /\ NumberWith(individuals_list, "is_infected") = 1
    /\ NumberWith(individuals_list, "is_dead") = 0

\* C4: every pressure contribution the code computes is a non-negative
\* number, and it is zero when the individual is neither Infected-Asymptomatic
\* nor Infected-Symptomatic.
C4_PressureNonNegative ==
    result.op = "get_infection_pressure" =>
        /\ result.raised = ""
        /\ \E p \in result.value : p >= 0
        /\ ~individuals_list[result.self].is_infected => result.value = {0}

\* C5: no individual with a non-positive infection_radius exists in the
\* population: constructing one fails.
C5_RadiusPositive ==
    \A i \in DOMAIN individuals_list : individuals_list[i].infection_radius > 0

\* C6: for every individual each of infection_date, symptom_date and
\* death_date is non-null exactly when the corresponding transition has
\* occurred: an infected individual has an infection_date, one with symptoms a
\* symptom_date, and death_date is set exactly for the dead.
C6_DatesMatchTransitions ==
    \A i \in DOMAIN individuals_list :
        LET p == individuals_list[i] IN
        /\ p.is_infected => p.infection_date # None
        /\ p.has_symptom => p.symptom_date # None
        /\ p.is_dead <=> p.death_date # None

\* C7: individuals are never removed and the recorded population_size equals
\* the length of the individual list.
C7_SizeIsListLength ==
    population_size = Len(individuals_list)

\* C10: the flags of every individual encode one of the five health states:
\* has_symptom implies is_infected, so
\* get_has_symptom_count() <= get_infected_count() <= number of individuals.
C10_FlagsEncodeHealthState ==
    /\ \A i \in DOMAIN individuals_list :
           individuals_list[i].has_symptom => individuals_list[i].is_infected
    /\ get_has_symptom_count(individuals_list) <= get_infected_count(individuals_list)
    /\ get_infected_count(individuals_list) <= Len(individuals_list)

====
